---- MODULE Spec2Model ----
(***************************************************************************)
(* Dynamic Ansible inventory for Multipass VMs                             *)
(* (ansible/inventories/multipass/inventory.py).                           *)
(*                                                                         *)
(* One run of the script is: parse the command line, run                   *)
(* `multipass list --format json` once, resolve the target VM and its      *)
(* address, build the inventory document and print one JSON text.          *)
(*                                                                         *)
(* Python values are modelled as follows.                                  *)
(*   dict          a function whose DOMAIN is the set of keys; {} is <<>>  *)
(*   list / tuple  a sequence                                              *)
(*   str           a string (Len, SubSeq and = are those of the text)      *)
(*   None          an optional value is a sequence of length 0 or 1        *)
(*   a call        [raised |-> name of the exception or "", value |-> v]   *)
(***************************************************************************)
EXTENDS Integers, Sequences, FiniteSets, TLC

VARIABLES
    multipass,       \* what `multipass list --format json` does on this machine
    pc,              \* position of the running process in main()
    args,            \* the Namespace returned by parse_args
    multipass_data,  \* get_inventory's local: the fetched mapping
    inventory,       \* main's local: the document returned by get_inventory
    stdout,          \* the texts this process has written to standard output
    fetches,         \* number of times this process has run the external command
    listed           \* the text printed by the latest completed `--list` run

vars == <<multipass, pc, args, multipass_data, inventory, stdout, fetches, listed>>

----------------------------------------------------------------------------
(* Bounds of the model *)

MaxVMs == 2      \* records in the VM list
MaxIps == 3      \* addresses in one record's ipv4 sequence
MaxArgv == 3     \* command-line words after the program name

----------------------------------------------------------------------------
(* Python helpers *)

None == <<>>
Some(v) == <<v>>

\* dict.get(key, default)
Get(d, key, default) == IF key \in DOMAIN d THEN d[key] ELSE default

\* dict.get(key): the value, or None
GetOpt(d, key) == IF key \in DOMAIN d THEN Some(d[key]) ELSE None

\* str.startswith(prefix)
startswith(s, prefix) ==
    Len(s) >= Len(prefix) /\ SubSeq(s, 1, Len(prefix)) = prefix

\* str.startswith(tuple of prefixes)
startswith_any(s, prefixes) ==
    \E i \in 1..Len(prefixes) : startswith(s, prefixes[i])

Returned(v) == [raised |-> "", value |-> v]
Raised(e) == [raised |-> e, value |-> <<>>]

\* json.dumps(obj, indent=...): the rendered text, kept as its indentation
\* width and the value it denotes
json_dumps(obj, indent) == [indent |-> indent, value |-> obj]

\* json.loads(text)
json_loads(text) ==
    IF text.wellformed THEN Returned(text.value) ELSE Raised("JSONDecodeError")

\* subprocess.run(cmd, capture_output=True, text=True, check=True) against
\* the command behaviour `mp`
subprocess_run(mp) ==
    IF mp.spawn = "ENOENT" THEN Raised("FileNotFoundError")
    ELSE IF mp.spawn = "EACCES" THEN Raised("PermissionError")
    ELSE IF ~mp.stdout.decodable THEN Raised("UnicodeDecodeError")
    ELSE IF mp.returncode # 0 THEN Raised("CalledProcessError")
    ELSE Returned([returncode |-> mp.returncode, stdout |-> mp.stdout])

----------------------------------------------------------------------------
(* Literals of the script *)

TARGET == "jterrazz-infra"
EXCLUDED_PREFIXES == <<"127.", "172.", "10.42.">>
CAUGHT == {"CalledProcessError", "JSONDecodeError", "FileNotFoundError"}
SSH_COMMON_ARGS == "-o StrictHostKeyChecking=no -o UserKnownHostsFile=/dev/null"
INDENT == 2

\* abspath(__file__), as path components below the filesystem root
SCRIPT_FILE == <<"srv", "jterrazz-infra", "ansible", "inventories", "multipass", "inventory.py">>

----------------------------------------------------------------------------
(* get_multipass_vm_info *)

get_multipass_vm_info(mp) ==
    LET result == subprocess_run(mp)
        parsed == IF result.raised # "" THEN result
                  ELSE json_loads(result.value.stdout)
    IN  IF parsed.raised = "" THEN parsed
        ELSE IF parsed.raised \in CAUGHT THEN Returned([list |-> <<>>])
        ELSE parsed

----------------------------------------------------------------------------
(* get_project_root *)

\* os.path.dirname on an absolute path
dirname(p) == IF Len(p) = 0 THEN p ELSE SubSeq(p, 1, Len(p) - 1)

\* os.path.join(root, "local-data/ssh/id_rsa")
path_join(root, rel) == root \o rel

get_project_root ==
    LET script_dir == dirname(SCRIPT_FILE)
    IN  dirname(dirname(dirname(script_dir)))

----------------------------------------------------------------------------
(* get_inventory *)

\* a variant of find_target without the break of line 41: the last match
RECURSIVE find_target_last(_)
find_target_last(vms) ==
    IF vms = <<>> THEN None
    ELSE IF GetOpt(vms[Len(vms)], "name") = Some(TARGET) THEN Some(vms[Len(vms)])
    ELSE find_target_last(SubSeq(vms, 1, Len(vms) - 1))

\* lines 37-41: the first record whose name is the target, or None
RECURSIVE find_target(_)
find_target(vms) ==
    IF vms = <<>> THEN None
    ELSE IF GetOpt(Head(vms), "name") = Some(TARGET) THEN Some(Head(vms))
    ELSE find_target(Tail(vms))

\* a variant of not_excluded that forgets the "10.42." prefix
not_excluded_two_prefixes(ip) == ~startswith_any(ip, <<"127.", "172.">>)

\* line 61: the address passes the filter
not_excluded(ip) == ~startswith_any(ip, EXCLUDED_PREFIXES)

\* a variant of select_ip without the break of line 63: the last address
\* that passes the filter
RECURSIVE select_ip_last(_)
select_ip_last(ipv4) ==
    IF ipv4 = <<>> THEN None
    ELSE IF not_excluded(ipv4[Len(ipv4)]) THEN Some(ipv4[Len(ipv4)])
    ELSE select_ip_last(SubSeq(ipv4, 1, Len(ipv4) - 1))

\* lines 58-63: the first address that passes the filter, or None
RECURSIVE select_ip(_)
select_ip(ipv4) ==
    IF ipv4 = <<>> THEN None
    ELSE IF not_excluded(Head(ipv4)) THEN Some(Head(ipv4))
    ELSE select_ip(Tail(ipv4))

\* a variant of truthy_ip that tests `vm_ip is not None`
truthy_ip_not_none(vm_ip) == vm_ip # None

\* truth value of vm_ip at line 65
truthy_ip(vm_ip) == vm_ip # None /\ vm_ip[1] # ""

\* lines 44-54
base_inventory ==
    ("all" :> [children |-> <<"development">>])
    @@ ("development" :> [hosts |-> <<>>])
    @@ ("_meta" :> [hostvars |-> <<>>])

\* lines 70-75
host_variables(vm_ip, ssh_key_path) ==
    [ansible_host |-> vm_ip,
     ansible_user |-> "ubuntu",
     ansible_ssh_private_key_file |-> ssh_key_path,
     ansible_ssh_common_args |-> SSH_COMMON_ARGS]

\* lines 67-75: the two assignments of the success branch
with_host(inv, vm_ip, ssh_key_path) ==
    [inv EXCEPT !["development"].hosts = <<TARGET>>,
                !["_meta"].hostvars = (TARGET :> host_variables(vm_ip, ssh_key_path)) @@ @]

\* truth value of target_vm at line 57: a dict that is not empty
truthy_vm(target_vm) == target_vm # None /\ DOMAIN target_vm[1] # {}

\* lines 36-77, on the fetched mapping
resolve(data) ==
    LET ssh_key_path == path_join(get_project_root, <<"local-data", "ssh", "id_rsa">>)
        target_vm == find_target(Get(data, "list", <<>>))
    IN  IF truthy_vm(target_vm) /\ GetOpt(target_vm[1], "state") = Some("Running")
        THEN LET vm_ip == select_ip(Get(target_vm[1], "ipv4", <<>>))
             IN  IF truthy_ip(vm_ip)
                 THEN with_host(base_inventory, vm_ip[1], ssh_key_path)
                 ELSE base_inventory
        ELSE base_inventory

\* lines 28-77: the fetch, then the resolution; an exception of the fetch
\* that get_multipass_vm_info lets through is not handled here either
get_inventory(mp) ==
    LET fetched == get_multipass_vm_info(mp)
    IN  IF fetched.raised # "" THEN fetched
        ELSE Returned([data |-> fetched.value, inventory |-> resolve(fetched.value)])

----------------------------------------------------------------------------
(* main *)

\* the Namespace before any argument is seen (lines 81-82)
default_args == [list |-> FALSE, host |-> None]

\* argparse: the word is taken as an option, not as a value
is_option(word) == startswith(word, "-")

\* parser.parse_args(): SystemExit stands for argparse's usage error
\* (message on standard error, exit status 2)
RECURSIVE parse_from(_, _)
parse_from(argv, ns) ==
    IF argv = <<>> THEN Returned(ns)
    ELSE IF Head(argv) = "--list"
         THEN parse_from(Tail(argv), [ns EXCEPT !.list = TRUE])
    ELSE IF Head(argv) = "--host"
         THEN IF Len(argv) >= 2 /\ ~is_option(argv[2])
              THEN parse_from(SubSeq(argv, 3, Len(argv)),
                              [ns EXCEPT !.host = Some(argv[2])])
              ELSE Raised("SystemExit")
    ELSE Raised("SystemExit")

parse_args(argv) == parse_from(argv, default_args)

\* truth value of args.host at line 90
truthy_host(host) == host # None /\ host[1] # ""

\* a variant of main_output that looks the host up in the document itself
main_output_top_level(ns, inv) ==
    IF ns.list THEN json_dumps(inv, INDENT)
    ELSE IF truthy_host(ns.host)
         THEN json_dumps(IF ns.host[1] \in DOMAIN inv THEN inv[ns.host[1]] ELSE <<>>, INDENT)
    ELSE json_dumps(inv, INDENT)

\* a variant of main_output that ignores the name given to --host
main_output_fixed_host(ns, inv) ==
    IF ns.list THEN json_dumps(inv, INDENT)
    ELSE IF truthy_host(ns.host)
         THEN json_dumps(Get(Get(Get(inv, "_meta", <<>>), "hostvars", <<>>),
                             TARGET, <<>>), INDENT)
    ELSE json_dumps(inv, INDENT)

\* a variant of main_output whose last branch prints the empty mapping
main_output_default_empty(ns, inv) ==
    IF ns.list THEN json_dumps(inv, INDENT)
    ELSE IF truthy_host(ns.host)
         THEN json_dumps(Get(Get(Get(inv, "_meta", <<>>), "hostvars", <<>>),
                             ns.host[1], <<>>), INDENT)
    ELSE json_dumps(<<>>, INDENT)

\* a variant of main_output that tests --host before --list
main_output_host_first(ns, inv) ==
    IF truthy_host(ns.host)
    THEN json_dumps(Get(Get(Get(inv, "_meta", <<>>), "hostvars", <<>>),
                        ns.host[1], <<>>), INDENT)
    ELSE json_dumps(inv, INDENT)

\* lines 88-96: the text main prints
main_output(ns, inv) ==
    IF ns.list THEN json_dumps(inv, INDENT)
    ELSE IF truthy_host(ns.host)
         THEN json_dumps(Get(Get(Get(inv, "_meta", <<>>), "hostvars", <<>>),
                             ns.host[1], <<>>), INDENT)
    ELSE json_dumps(inv, INDENT)

----------------------------------------------------------------------------
(* Inputs: the command line and the machine the script runs on *)

SeqsUpTo(S, n) == UNION {[1..k -> S] : k \in 0..n}

Words == {"--list", "--host", TARGET, "web", ""}
Argvs == SeqsUpTo(Words, MaxArgv)

\* one address under each excluded prefix, one that only resembles an
\* excluded prefix, one ordinary address, and the empty string
Addresses == {"127.0.0.1", "172.17.0.1", "10.42.0.5", "10.43.0.7", "192.168.64.10", ""}
Ipv4Lists ==
    SeqsUpTo(Addresses, MaxIps)
    \cup { <<"127.0.0.1", "172.17.0.1", "10.42.0.5", "192.168.64.10">> }

vm(name, state, ipv4) == [name |-> name, state |-> state, ipv4 |-> ipv4]

\* records that are not the target's: another machine, and one with no name
Decoys ==
    { vm("web", "Running", <<"192.168.64.11">>),
      [state |-> "Running", ipv4 |-> <<"192.168.64.12">>] }

\* the decoys, and records of the target that lack a key
OtherRecords ==
    Decoys \cup { [name |-> TARGET, ipv4 |-> <<"192.168.64.13">>],
                  [name |-> TARGET, state |-> "Running"] }

\* records of the target machine with any address sequence
FineRecords ==
    { vm(TARGET, st, ips) : st \in {"Running", "Stopped"}, ips \in Ipv4Lists }

\* records of the target machine with at most one address
CoarseRecords ==
    { r \in FineRecords : Len(r.ipv4) <= 1 } \cup OtherRecords

\* VM lists: any list of up to MaxVMs coarse records, and any fine record
\* alone or behind one decoy
VmLists ==
    SeqsUpTo(CoarseRecords, MaxVMs)
    \cup { <<r>> : r \in FineRecords }
    \cup { <<o, r>> : o \in Decoys, r \in FineRecords }

\* JSON objects the command may print: with a "list", or without one
Documents == { [list |-> vms] : vms \in VmLists } \cup { <<>> }

\* the bytes the command writes: decodable as text or not, and if so
\* well-formed JSON (with the value it denotes) or not
json_text(doc) == [decodable |-> TRUE, wellformed |-> TRUE, value |-> doc]
garbage == [decodable |-> TRUE, wellformed |-> FALSE, value |-> <<>>]
binary == [decodable |-> FALSE, wellformed |-> FALSE, value |-> <<>>]
a_running_target == [list |-> <<vm(TARGET, "Running", <<"192.168.64.10">>)>>]

\* behaviours of `multipass list --format json`
Multipass ==
    { [spawn |-> "ok", returncode |-> 0, stdout |-> json_text(doc)] : doc \in Documents }
    \cup { [spawn |-> "ok", returncode |-> 0, stdout |-> garbage],
           [spawn |-> "ok", returncode |-> 0, stdout |-> binary],
           [spawn |-> "ok", returncode |-> 1, stdout |-> garbage],
           [spawn |-> "ok", returncode |-> 1, stdout |-> json_text(a_running_target)],
           [spawn |-> "ENOENT", returncode |-> 0, stdout |-> garbage],
           [spawn |-> "EACCES", returncode |-> 0, stdout |-> garbage] }

----------------------------------------------------------------------------
(* The runs *)

Init ==
    /\ multipass \in Multipass
    /\ pc = "start"
    /\ args = default_args
    /\ multipass_data = <<>>
    /\ inventory = <<>>
    /\ stdout = <<>>
    /\ fetches = 0
    /\ listed = None

\* line 84
ParseArgs ==
    /\ pc = "start"
    /\ \E argv \in Argvs :
         LET r == parse_args(argv)
         IN  IF r.raised = ""
             THEN args' = r.value /\ pc' = "parsed"
             ELSE args' = args /\ pc' = "usage"
    /\ UNCHANGED <<multipass, multipass_data, inventory, stdout, fetches, listed>>

\* line 86
GetInventory ==
    /\ pc = "parsed"
    /\ fetches' = fetches + 1
    /\ LET r == get_inventory(multipass)
       IN  IF r.raised = ""
           THEN /\ multipass_data' = r.value.data
                /\ inventory' = r.value.inventory
                /\ pc' = "built"
           ELSE /\ UNCHANGED <<multipass_data, inventory>>
                /\ pc' = "crashed"
    /\ UNCHANGED <<multipass, args, stdout, listed>>

\* lines 88-96
PrintOutput ==
    /\ pc = "built"
    /\ stdout' = Append(stdout, main_output(args, inventory))
    /\ listed' = IF args = [list |-> TRUE, host |-> None]
                 THEN Some(main_output(args, inventory))
                 ELSE listed
    /\ pc' = "done"
    /\ UNCHANGED <<multipass, args, multipass_data, inventory, fetches>>

\* the script is started again on the same machine
NextRun ==
    /\ pc \in {"done", "crashed", "usage"}
    /\ pc' = "start"
    /\ args' = default_args
    /\ multipass_data' = <<>>
    /\ inventory' = <<>>
    /\ stdout' = <<>>
    /\ fetches' = 0
    /\ UNCHANGED <<multipass, listed>>

Next == ParseArgs \/ GetInventory \/ PrintOutput \/ NextRun

Spec == Init /\ [][Next]_vars

----------------------------------------------------------------------------
(* Vocabulary of the properties, stated on the data and not through the    *)
(* operators above                                                         *)

Built == pc \in {"built", "done"}
Ended == pc \in {"done", "crashed"}

FetchedList == IF "list" \in DOMAIN multipass_data THEN multipass_data.list ELSE <<>>

Named(r) == "name" \in DOMAIN r /\ r.name = "jterrazz-infra"
IsRunning(r) == "state" \in DOMAIN r /\ r.state = "Running"
IpsOf(r) == IF "ipv4" \in DOMAIN r THEN r.ipv4 ELSE <<>>

HasPrefix(s, p) == Len(s) >= Len(p) /\ \A i \in 1..Len(p) : SubSeq(s, i, i) = SubSeq(p, i, i)
Excluded(ip) == HasPrefix(ip, "127.") \/ HasPrefix(ip, "172.") \/ HasPrefix(ip, "10.42.")

HasTarget(vms) == \E i \in 1..Len(vms) : Named(vms[i])
FirstTarget(vms) ==
    vms[CHOOSE i \in 1..Len(vms) : Named(vms[i]) /\ \A j \in 1..(i - 1) : ~Named(vms[j])]

HasQualifying(ips) == \E k \in 1..Len(ips) : ~Excluded(ips[k])
FirstQualifying(ips) ==
    ips[CHOOSE k \in 1..Len(ips) : ~Excluded(ips[k]) /\ \A j \in 1..(k - 1) : Excluded(ips[j])]

Hosts(inv) == inv["development"].hosts
HostVars(inv) == inv["_meta"].hostvars
IsEmptyInventory(inv) == Hosts(inv) = <<>> /\ HostVars(inv) = <<>>

HostKeys ==
    {"ansible_host", "ansible_user", "ansible_ssh_private_key_file", "ansible_ssh_common_args"}

\* the text of a document, pretty-printed with two spaces
Pretty(doc) == [indent |-> 2, value |-> doc]

CommandFails(mp) ==
    mp.spawn # "ok" \/ mp.returncode # 0 \/ ~mp.stdout.decodable \/ ~mp.stdout.wellformed

PrintsDocument == args.list \/ args.host = None

----------------------------------------------------------------------------
(* C1 *)

\* C1: whenever the VM-list command fails (it cannot be launched, exits
\* non-zero, or its output is not decodable JSON), the fetch yields an empty
\* list without raising, the inventory is the empty one, and a run that
\* prints the document prints the empty inventory document.
C1_FailSoft ==
    (CommandFails(multipass) /\ pc \in {"built", "done", "crashed"}) =>
        /\ pc # "crashed"
        /\ FetchedList = <<>>
        /\ IsEmptyInventory(inventory)
        /\ (pc = "done" /\ PrintsDocument) =>
               /\ stdout = <<Pretty(inventory)>>

----------------------------------------------------------------------------
(* C2 *)

\* C2: if no fetched record is named "jterrazz-infra", or the target record
\* is not in state "Running", or every address of the target (possibly
\* none) starts with "127.", "172." or "10.42.", the document returned by
\* get_inventory has no host and no host variables.
C2_EmptyWhenUnresolved ==
    Built =>
        LET vms == FetchedList
        IN  (\/ ~HasTarget(vms)
             \/ ~IsRunning(FirstTarget(vms))
             \/ \A k \in 1..Len(IpsOf(FirstTarget(vms))) :
                    Excluded(IpsOf(FirstTarget(vms))[k]))
            => IsEmptyInventory(inventory)

\* a running target all of whose addresses, one per prefix, are excluded
C2_Witness ==
    /\ Built
    /\ HasTarget(FetchedList)
    /\ IsRunning(FirstTarget(FetchedList))
    /\ IpsOf(FirstTarget(FetchedList)) = <<"127.0.0.1", "172.17.0.1", "10.42.0.5">>
    /\ IsEmptyInventory(inventory)

----------------------------------------------------------------------------
(* C3 *)

\* C3 as stated: a running target with at least one address outside the
\* excluded prefixes is put in development.hosts with ansible_host the first
\* such address.
C3_FirstQualifyingSelected ==
    (Built /\ HasTarget(FetchedList) /\ IsRunning(FirstTarget(FetchedList))
           /\ HasQualifying(IpsOf(FirstTarget(FetchedList)))) =>
        /\ Hosts(inventory) = <<"jterrazz-infra">>
        /\ "jterrazz-infra" \in DOMAIN HostVars(inventory)
        /\ HostVars(inventory)["jterrazz-infra"].ansible_host =
               FirstQualifying(IpsOf(FirstTarget(FetchedList)))

\* C3 amended: a running target whose first address outside the excluded
\* prefixes is not the empty string is put in development.hosts with
\* ansible_host that address, whatever addresses follow it; when that first
\* address is the empty string the inventory is empty.
C3_FirstNonEmptyQualifyingSelected ==
    (Built /\ HasTarget(FetchedList) /\ IsRunning(FirstTarget(FetchedList))
           /\ HasQualifying(IpsOf(FirstTarget(FetchedList)))) =>
        LET first == FirstQualifying(IpsOf(FirstTarget(FetchedList)))
        IN  IF first # ""
            THEN /\ Hosts(inventory) = <<"jterrazz-infra">>
                 /\ "jterrazz-infra" \in DOMAIN HostVars(inventory)
                 /\ HostVars(inventory)["jterrazz-infra"].ansible_host = first
            ELSE IsEmptyInventory(inventory)

\* the example of the specification: three excluded addresses, then the one
\* selected
C3_Witness ==
    /\ Built
    /\ HasTarget(FetchedList)
    /\ IsRunning(FirstTarget(FetchedList))
    /\ IpsOf(FirstTarget(FetchedList)) =
          <<"127.0.0.1", "172.17.0.1", "10.42.0.5", "192.168.64.10">>
    /\ Hosts(inventory) = <<"jterrazz-infra">>
    /\ HostVars(inventory)["jterrazz-infra"].ansible_host = "192.168.64.10"

----------------------------------------------------------------------------
(* C7 *)

\* C7: host variables are never partially populated: either there is no
\* host and no host variables, or development.hosts is exactly the target
\* and _meta.hostvars has the target as its only key, with all four
\* variables, a non-empty ansible_host and ansible_user "ubuntu".
C7_AllOrNothing ==
    Built =>
        \/ IsEmptyInventory(inventory)
        \/ /\ Hosts(inventory) = <<"jterrazz-infra">>
           /\ DOMAIN HostVars(inventory) = {"jterrazz-infra"}
           /\ DOMAIN HostVars(inventory)["jterrazz-infra"] = HostKeys
           /\ HostVars(inventory)["jterrazz-infra"].ansible_host # ""
           /\ \E k \in 1..Len(IpsOf(FirstTarget(FetchedList))) :
                 HostVars(inventory)["jterrazz-infra"].ansible_host =
                     IpsOf(FirstTarget(FetchedList))[k]
           /\ HostVars(inventory)["jterrazz-infra"].ansible_user = "ubuntu"

\* a document with the host, built from a target whose address list also
\* holds an empty string
C7_Witness ==
    /\ Built
    /\ ~IsEmptyInventory(inventory)
    /\ \E k \in 1..Len(IpsOf(FirstTarget(FetchedList))) :
          IpsOf(FirstTarget(FetchedList))[k] = ""

----------------------------------------------------------------------------
(* C9 *)

NamedCount(vms) == Cardinality({i \in 1..Len(vms) : Named(vms[i])})

\* C9: when several records are named "jterrazz-infra", the first of them
\* alone decides: if it is not Running or has no address outside the
\* excluded prefixes the inventory is empty, and a selected address is
\* always one of its own.
C9_FirstMatchDecides ==
    (Built /\ NamedCount(FetchedList) >= 2) =>
        LET first == FirstTarget(FetchedList)
        IN  /\ (~IsRunning(first) \/ ~HasQualifying(IpsOf(first)))
                   => IsEmptyInventory(inventory)
            /\ ~IsEmptyInventory(inventory) =>
                   \E k \in 1..Len(IpsOf(first)) :
                       HostVars(inventory)["jterrazz-infra"].ansible_host = IpsOf(first)[k]

\* the first record of that name is stopped, a later one is running with a
\* usable address, and the inventory is empty
C9_Witness ==
    /\ Built
    /\ Len(FetchedList) = 2
    /\ Named(FetchedList[1]) /\ ~IsRunning(FetchedList[1])
    /\ Named(FetchedList[2]) /\ IsRunning(FetchedList[2])
    /\ IpsOf(FetchedList[2]) = <<"192.168.64.10">>
    /\ IsEmptyInventory(inventory)

----------------------------------------------------------------------------
(* C4 *)

HostOnly(name) == [list |-> FALSE, host |-> <<name>>]

\* C4: when resolution succeeds, a run with `--host jterrazz-infra` prints
\* exactly the mapping that the `--list` run on the same VM list embeds
\* under _meta.hostvars["jterrazz-infra"], with its four keys.
C4_HostMatchesList ==
    (/\ pc = "done"
     /\ args = HostOnly("jterrazz-infra")
     /\ listed # <<>>
     /\ "jterrazz-infra" \in DOMAIN HostVars(listed[1].value)) =>
        /\ stdout = <<Pretty(HostVars(listed[1].value)["jterrazz-infra"])>>
        /\ DOMAIN stdout[1].value = HostKeys

\* a `--host jterrazz-infra` run after a `--list` run that found the host
C4_Witness ==
    /\ pc = "done"
    /\ args = HostOnly("jterrazz-infra")
    /\ listed # <<>>
    /\ "jterrazz-infra" \in DOMAIN HostVars(listed[1].value)
    /\ stdout[1].value.ansible_host = "192.168.64.10"

----------------------------------------------------------------------------
(* C5 *)

\* C5 as stated: a run given `--host NAME` with NAME not a key of
\* _meta.hostvars prints the empty mapping.
C5_UnknownHostPrintsEmpty ==
    (/\ pc = "done"
     /\ args.host # <<>>
     /\ args.host[1] \notin DOMAIN HostVars(inventory)) =>
        stdout = <<Pretty(<<>>)>>

\* C5 amended: a run given `--host NAME` without `--list`, with NAME not
\* the empty string and not a key of _meta.hostvars, prints the empty
\* mapping, whatever the VM list is.
C5_UnknownNamedHostPrintsEmpty ==
    (/\ pc = "done"
     /\ ~args.list
     /\ args.host # <<>>
     /\ args.host[1] # ""
     /\ args.host[1] \notin DOMAIN HostVars(inventory)) =>
        stdout = <<Pretty(<<>>)>>

\* `--host web` while the target is resolved: the empty mapping is printed
C5_Witness ==
    /\ pc = "done"
    /\ args = HostOnly("web")
    /\ ~IsEmptyInventory(inventory)
    /\ stdout = <<Pretty(<<>>)>>

----------------------------------------------------------------------------
(* C6 *)

\* C6: a run with neither flag prints the same text as the `--list` run on
\* the same VM list.
C6_NoFlagsAsList ==
    (pc = "done" /\ ~args.list /\ args.host = <<>> /\ listed # <<>>) =>
        stdout = <<listed[1]>>

\* a run without flags after a `--list` run, the host being resolved
C6_Witness ==
    /\ pc = "done"
    /\ ~args.list
    /\ args.host = <<>>
    /\ listed # <<>>
    /\ Hosts(inventory) = <<"jterrazz-infra">>
    /\ stdout = <<Pretty(inventory)>>

----------------------------------------------------------------------------
(* C8 *)

\* C8: a run whose arguments parse runs the external command exactly once
\* and then writes exactly one text: nothing is written before the fetch,
\* nothing twice, and the run does not end without writing.
C8_OneFetchOneWrite ==
    pc \notin {"start", "usage"} =>
        /\ fetches <= 1
        /\ Len(stdout) <= 1
        /\ Len(stdout) = 1 => fetches = 1
        /\ Ended => (fetches = 1 /\ Len(stdout) = 1)

----------------------------------------------------------------------------
(* C10 *)

\* C10: `--list` decides first: with `--list` the full document is printed
\* even when `--host NAME` is given; `--host ""` without `--list` prints
\* the full document too; anything else than the full document is printed
\* only without `--list` and with a non-empty `--host` value.
C10_ListTakesPrecedence ==
    pc = "done" =>
        /\ args.list => stdout = <<Pretty(inventory)>>
        /\ args.host = <<"">> => stdout = <<Pretty(inventory)>>
        /\ stdout # <<Pretty(inventory)>> =>
               (~args.list /\ args.host # <<>> /\ args.host[1] # "")

\* `--list --host jterrazz-infra` with the host resolved: the document
C10_Witness ==
    /\ pc = "done"
    /\ args = [list |-> TRUE, host |-> <<"jterrazz-infra">>]
    /\ "jterrazz-infra" \in DOMAIN HostVars(inventory)
    /\ stdout = <<Pretty(inventory)>>

====
